---- MODULE Spec2Model ----
(***************************************************************************)
(* ApiDataFactory (src/src/jsonApi/factories/ApiDataFactory.ts): the       *)
(* key -> constructor registry and the _request pipeline behind the verbs  *)
(* get / post / put / patch / delete.                                      *)
(*                                                                         *)
(* JavaScript strings on which the code computes (links, URLs) are         *)
(* sequences of one-character strings; strings the code only copies        *)
(* (status texts, messages, tokens) are TLA+ strings.                      *)
(***************************************************************************)
EXTENDS Naturals, Sequences, FiniteSets, TLC

VARIABLES
    classMap,     \* ApiDataFactory.classMap: key -> constructor (NoClass when absent)
    window,       \* typeof window: "undefined" on the server, "object" in a browser
    disp,         \* the dispatches (_request activations) started so far
    objects,      \* every instance made by `new factoryClass()`, in creation order
    firstCtor,    \* history: key -> constructor of the first registerObjectClass call
    ignored       \* history: the registerObjectClass calls that came after a first
                  \* call for their key and passed another constructor

vars == <<classMap, window, disp, objects, firstCtor, ignored>>

----------------------------------------------------------------------------
(* Bounds of the model *)

MaxDispatches == 2   \* dispatches in a behaviour, pagination calls included
MaxCalls == 1        \* verb calls of the callers in the single-call worlds
MaxData == 2         \* elements of a payload's primary data array

----------------------------------------------------------------------------
(* JavaScript values *)

\* a value that is a string, undefined, or (for an object's key) absent
Absent == [t |-> "absent", s |-> <<>>]
Undefined == [t |-> "undefined", s |-> <<>>]
Str(s) == [t |-> "string", s |-> s]

\* !v of JavaScript for such a value: undefined and "" are falsy
Falsy(v) == v.t # "string" \/ v.s = <<>>

Min(a, b) == IF a <= b THEN a ELSE b

\* String.prototype.startsWith
startsWith(s, p) == Len(s) >= Len(p) /\ SubSeq(s, 1, Len(p)) = p

\* String.prototype.substring(n)
substring(s, n) == SubSeq(s, Min(n, Len(s)) + 1, Len(s))

\* the characters encodeURIComponent leaves alone, among those the model uses
Unreserved == {"a", "b", "g", "h", "i", "p", "s", "t", "w", "1", "2"}

Escape(c) ==
    CASE c = "/" -> <<"%", "2", "F">>
      [] c = ":" -> <<"%", "3", "A">>
      [] c = "?" -> <<"%", "3", "F">>
      [] c = "=" -> <<"%", "3", "D">>
      [] c = "%" -> <<"%", "2", "5">>
      [] OTHER   -> <<c>>

RECURSIVE encodeURIComponent(_)
encodeURIComponent(s) ==
    IF s = <<>> THEN <<>>
    ELSE (IF Head(s) \in Unreserved THEN <<Head(s)>> ELSE Escape(Head(s)))
         \o encodeURIComponent(Tail(s))

----------------------------------------------------------------------------
(* Environment configuration *)

Http == <<"h", "t", "t", "p">>
NEXT_PUBLIC_API_URL == <<"h", "t", "t", "p", ":", "/", "/", "a">>
NEXT_PUBLIC_INTERNAL_API_URL == <<"/", "i">>
UriQuery == <<"?", "u", "r", "i", "=">>

----------------------------------------------------------------------------
(* Registry *)

Keys == {"k1", "k2"}
Ctors == {"A", "B"}
NoClass == "none"

\* Map.prototype.set on classMap
classMapSet(key, classConstructor) ==
    [classMap EXCEPT ![key] = classConstructor]

\* a registry in which the last registration for a key wins
registerObjectClassOverwrite(key, classConstructor) ==
    /\ classMap' = classMapSet(key, classConstructor)
    /\ firstCtor' = IF firstCtor[key] = NoClass
                    THEN [firstCtor EXCEPT ![key] = classConstructor]
                    ELSE firstCtor
    /\ ignored' = IF firstCtor[key] \notin {NoClass, classConstructor}
                  THEN ignored \cup {<<key, classConstructor>>}
                  ELSE ignored
    /\ UNCHANGED <<window, disp, objects>>

registerObjectClass(key, classConstructor) ==
    /\ classMap' = IF classMap[key] = NoClass
                   THEN classMapSet(key, classConstructor)
                   ELSE classMap
    /\ firstCtor' = IF firstCtor[key] = NoClass
                    THEN [firstCtor EXCEPT ![key] = classConstructor]
                    ELSE firstCtor
    /\ ignored' = IF firstCtor[key] \notin {NoClass, classConstructor}
                  THEN ignored \cup {<<key, classConstructor>>}
                  ELSE ignored
    /\ UNCHANGED <<window, disp, objects>>

----------------------------------------------------------------------------
(* Values that travel through a dispatch *)

\* the caller's params bag: params?.link is undefined when params is undefined
NoParams == [present |-> FALSE, link |-> Undefined]
Params(link) == [present |-> TRUE, link |-> link]

\* the caller's body: undefined, or an object with the listed keys
NoBody == [t |-> "undefined", keys |-> <<>>]
Body(keys) == [t |-> "object", keys |-> keys]

\* a text value or undefined (token, request data)
NoText == [t |-> "undefined", text |-> ""]
Text(x) == [t |-> "string", text |-> x]

RECURSIVE Members(_)
Members(keys) ==
    IF keys = <<>> THEN ""
    ELSE "\"" \o Head(keys) \o "\":1"
         \o (IF Tail(keys) = <<>> THEN "" ELSE ",") \o Members(Tail(keys))

\* JSON.stringify of a body object
JSONstringify(body) == "{" \o Members(body.keys) \o "}"

\* a JSON:API resource node, or undefined
NoNode == [t |-> "undefined", type |-> "", id |-> 0]
Node(i) == [t |-> "node", type |-> IF i % 2 = 1 THEN "k2" ELSE "k1", id |-> i]
Nodes(n) == [i \in 1..n |-> Node(i)]

\* primary data / included of a payload: absent, one node, or an array of nodes
NoArray == [t |-> "absent", items |-> <<>>]
Array(items) == [t |-> "array", items |-> items]
One(node) == [t |-> "object", items |-> <<node>>]

NoLinks == [t |-> "absent", self |-> Absent, next |-> Absent, prev |-> Absent]
Links(self, next, prev) == [t |-> "object", self |-> self, next |-> next, prev |-> prev]

\* axiosResponse.data: a parsed JSON object, a (non-JSON or empty) string, or null
Payload(ok, message, data, included, links) ==
    [t |-> "object", ok |-> ok, message |-> message, data |-> data,
     included |-> included, links |-> links]
StringPayload ==
    [t |-> "string", ok |-> "absent", message |-> NoText, data |-> NoArray,
     included |-> NoArray, links |-> NoLinks]
NullPayload ==
    [t |-> "null", ok |-> "absent", message |-> NoText, data |-> NoArray,
     included |-> NoArray, links |-> NoLinks]

\* what the transport hands back when its promise resolves
Response(status, statusText, data) ==
    [status |-> status, statusText |-> statusText, data |-> data]
NoReply == [status |-> 0, statusText |-> "", data |-> NullPayload]

\* a pagination closure: the classKey and the jsonData.links value it captured
NoClosure == [set |-> FALSE, classKey |-> "", link |-> Absent]
Closure(classKey, link) == [set |-> TRUE, classKey |-> classKey, link |-> link]

\* response.data: [] or an array of instances, or one instance
EmptyData == [t |-> "array", items |-> <<>>]

\* const response: ApiResponseInterface = { ok: true, response: 0, data: [], error: "" }
DefaultEnvelope ==
    [ok |-> TRUE, response |-> 0, data |-> EmptyData, error |-> "",
     self |-> Absent, next |-> Absent, prev |-> Absent,
     nextPage |-> NoClosure, prevPage |-> NoClosure]

\* the cookie store of next/headers: the value of each cookie, or undefined
SessionCookie == "next-auth.session-token"
SecureCookie == "__Secure-next-auth.session-token"
NoCookies == [first |-> NoText, second |-> NoText]

----------------------------------------------------------------------------
(* _request, up to the transport call *)

\* new factoryClass(): the heap with one more instance, made by dispatch `by`
Construct(objs, factoryClass, by) ==
    Append(objs, [ctor |-> factoryClass, by |-> by, urlCalls |-> 0, rehydrated |-> <<>>])

\* the activation record of a dispatch as it is entered; `given` is the body the
\* caller handed to the verb
Activation(method, classKey, params, body, given, via, from) ==
    [method |-> method, classKey |-> classKey, params |-> params, body |-> body,
     given |-> given, via |-> via, from |-> from,
     pc |-> "entered", factoryClass |-> NoClass, response |-> DefaultEnvelope,
     link |-> Undefined, linkIn |-> Undefined, generated |-> 0,
     cookies |-> NoCookies, cookieGets |-> <<>>, token |-> NoText,
     requests |-> <<>>, reply |-> NoReply, received |-> FALSE, caught |-> FALSE]

\* a lookup that lets a missing class through
ResolveUnchecked(a) ==
    [a EXCEPT !.factoryClass = classMap[a.classKey], !.pc = "resolved"]

\* const factoryClass = this.classMap.get(classKey); if (!factoryClass) throw ...
Resolve(a) ==
    IF classMap[a.classKey] = NoClass
    THEN [a EXCEPT !.pc = "thrown"]
    ELSE [a EXCEPT !.factoryClass = classMap[a.classKey], !.pc = "resolved"]

\* a link that always comes from generateApiUrl
InitialLinkBuilt(a, built) ==
    [a EXCEPT !.link = Str(built), !.linkIn = Str(built), !.generated = 1]

\* let link = params?.link; if (!link) link = new factoryClass().generateApiUrl(params);
\* `built` is what the Resource Type's generateApiUrl returns
InitialLink(a, built) ==
    IF Falsy(a.params.link)
    THEN [a EXCEPT !.link = Str(built), !.linkIn = Str(built), !.generated = 1]
    ELSE [a EXCEPT !.link = a.params.link, !.linkIn = a.params.link]

\* the heap after the statement above
HeapAfterLink(a, self) ==
    IF Falsy(a.params.link)
    THEN [Construct(objects, a.factoryClass, self) EXCEPT ![Len(objects) + 1].urlCalls = 1]
    ELSE objects

\* cookieStore.get(a)?.value ?? cookieStore.get(b)?.value ?? undefined
ReadToken(a, cookies) ==
    IF cookies.first.t # "undefined"
    THEN [a EXCEPT !.cookies = cookies, !.cookieGets = <<SessionCookie>>,
                   !.token = cookies.first]
    ELSE [a EXCEPT !.cookies = cookies, !.cookieGets = <<SessionCookie, SecureCookie>>,
                   !.token = cookies.second]

\* a server branch that prefixes every link
ServerLinkAlways(link) ==
    NEXT_PUBLIC_API_URL \o link

\* if (!link.startsWith("http")) link = process.env.NEXT_PUBLIC_API_URL + link;
ServerLink(link) ==
    IF ~startsWith(link, Http) THEN NEXT_PUBLIC_API_URL \o link ELSE link

\* a browser branch that does not strip the public API base URL
BrowserLinkUnstripped(link) ==
    NEXT_PUBLIC_INTERNAL_API_URL \o UriQuery \o encodeURIComponent(link)

\* if (link.startsWith("http")) link = link.substring(NEXT_PUBLIC_API_URL?.length ?? 0);
\* link = process.env.NEXT_PUBLIC_INTERNAL_API_URL + "?uri=" + encodeURIComponent(link);
BrowserLink(link) ==
    LET path == IF startsWith(link, Http)
                THEN substring(link, Len(NEXT_PUBLIC_API_URL))
                ELSE link
    IN  NEXT_PUBLIC_INTERNAL_API_URL \o UriQuery \o encodeURIComponent(path)

BaseHeaders ==
    {<<"Accept-Encoding", "identity">>, <<"Accept", "application/json">>,
     <<"Content-Type", "application/json">>}

\* a request configuration that leaves the token out
AxiosConfigNoCredential(a) ==
    [method |-> a.method,
     url |-> a.link.s,
     headers |-> BaseHeaders,
     data |-> IF a.body.t = "object" THEN Text(JSONstringify(a.body)) ELSE NoText]

\* const axiosConfig = {...}; if (token) axiosConfig.headers = {..., Authorization}
AxiosConfig(a) ==
    [method |-> a.method,
     url |-> a.link.s,
     headers |-> IF a.token.t = "string" /\ a.token.text # ""
                 THEN BaseHeaders \cup {<<"Authorization", "Bearer " \o a.token.text>>}
                 ELSE BaseHeaders,
     data |-> IF a.body.t = "object" THEN Text(JSONstringify(a.body)) ELSE NoText]

\* await axios(axiosConfig): the request leaves, the dispatch waits for the transport
Send(a) ==
    [a EXCEPT !.requests = Append(a.requests, AxiosConfig(a)), !.pc = "axios"]

\* the browser branch of `typeof window === "undefined"`, then the transport call
BrowserContext(a) ==
    Send([a EXCEPT !.link = Str(BrowserLink(a.link.s))])

\* the server branch after `await import("next/headers")`, then the transport call
ServerContext(a, cookies) ==
    LET b == ReadToken(a, cookies)
    IN  Send([b EXCEPT !.link = Str(ServerLink(b.link.s))])

\* _request from its entry to its first await (or its throw)
Enter(a, built) ==
    LET r == Resolve(a)
    IN  IF r.pc = "thrown" THEN r
        ELSE IF window = "undefined"
             THEN [InitialLink(r, built) EXCEPT !.pc = "import"]
             ELSE BrowserContext(InitialLink(r, built))

_request(method, classKey, params, body, given, via, from, built) ==
    LET a == Activation(method, classKey, params, body, given, via, from)
    IN  /\ disp' = Append(disp, Enter(a, built))
        /\ objects' = IF Resolve(a).pc = "thrown" THEN objects
                      ELSE HeapAfterLink(Resolve(a), Len(disp) + 1)
        /\ UNCHANGED <<classMap, window, firstCtor, ignored>>

\* the awaited import of next/headers resolves: cookies, server URL, transport call
importResolved(d, cookies) ==
    /\ disp[d].pc = "import"
    /\ disp' = [disp EXCEPT ![d] = ServerContext(disp[d], cookies)]
    /\ UNCHANGED <<classMap, window, objects, firstCtor, ignored>>

----------------------------------------------------------------------------
(* _request, from the transport's answer to the return *)

\* object.rehydrate({ jsonApi: data, included: included }) on instance `id`
Rehydrate(objs, id, jsonApi, included) ==
    [objs EXCEPT ![id].rehydrated =
        Append(@, [jsonApi |-> jsonApi, included |-> included])]

\* a loop that stops one element early
RECURSIVE RehydrateEachButLast(_, _, _, _, _, _, _, _)
RehydrateEachButLast(objs, responseData, items, included, factoryClass, by, failAt, k) ==
    IF k >= Len(items)
    THEN [objs |-> objs, responseData |-> responseData, threw |-> FALSE]
    ELSE LET id == Len(objs) + 1
             made == Rehydrate(Construct(objs, factoryClass, by), id, items[k], included)
         IN  IF k = failAt
             THEN [objs |-> made, responseData |-> responseData, threw |-> TRUE]
             ELSE RehydrateEachButLast(made, Append(responseData, id), items, included,
                                       factoryClass, by, failAt, k + 1)

\* for (const data of jsonData.data) { new factoryClass(); rehydrate; push }
\* from element k on; the rehydrate call of element failAt throws
RECURSIVE RehydrateEach(_, _, _, _, _, _, _, _)
RehydrateEach(objs, responseData, items, included, factoryClass, by, failAt, k) ==
    IF k > Len(items)
    THEN [objs |-> objs, responseData |-> responseData, threw |-> FALSE]
    ELSE LET id == Len(objs) + 1
             made == Rehydrate(Construct(objs, factoryClass, by), id, items[k], included)
         IN  IF k = failAt
             THEN [objs |-> made, responseData |-> responseData, threw |-> TRUE]
             ELSE RehydrateEach(made, Append(responseData, id), items, included,
                                factoryClass, by, failAt, k + 1)

\* a status test that takes 300 for a success
WithStatusInclusive(response, status) ==
    [response EXCEPT !.ok = status >= 200 /\ status <= 300, !.response = status]

\* response.ok = status >= 200 && status < 300; response.response = status
WithStatus(response, status) ==
    [response EXCEPT !.ok = status >= 200 /\ status < 300, !.response = status]

\* a links block whose second test reads links.next again
WithLinksNextTwice(response, links, classKey) ==
    IF links.t # "object" THEN response
    ELSE LET r1 == [response EXCEPT
                       !.self = IF links.self.t = "absent" THEN Undefined ELSE links.self]
             r2 == IF Falsy(links.next) THEN r1
                   ELSE [r1 EXCEPT !.next = links.next,
                                   !.nextPage = Closure(classKey, links.next)]
         IN  IF Falsy(links.next) THEN r2
             ELSE [r2 EXCEPT !.prev = links.prev,
                             !.prevPage = Closure(classKey, links.prev)]

\* if (jsonData.links) { self; if (links.next) {next, nextPage}; if (links.prev) {...} }
WithLinks(response, links, classKey) ==
    IF links.t # "object" THEN response
    ELSE LET r1 == [response EXCEPT
                       !.self = IF links.self.t = "absent" THEN Undefined ELSE links.self]
             r2 == IF Falsy(links.next) THEN r1
                   ELSE [r1 EXCEPT !.next = links.next,
                                   !.nextPage = Closure(classKey, links.next)]
         IN  IF Falsy(links.prev) THEN r2
             ELSE [r2 EXCEPT !.prev = links.prev,
                             !.prevPage = Closure(classKey, links.prev)]

\* a rehydration that hands an array of one node back as a single instance
PrimaryDataUnwrapped(objs, jsonData, factoryClass, by, failAt) ==
    LET included == IF jsonData.included.t = "array" THEN jsonData.included.items ELSE <<>>
    IN  IF jsonData.data.t = "array" /\ Len(jsonData.data.items) # 1
        THEN LET loop == RehydrateEach(objs, <<>>, jsonData.data.items, included,
                                       factoryClass, by, failAt, 1)
             IN  [objs |-> loop.objs, threw |-> loop.threw,
                  data |-> [t |-> "array", items |-> loop.responseData]]
        ELSE LET id == Len(objs) + 1
                 node == IF jsonData.data.t \in {"object", "array"}
                         THEN jsonData.data.items[1] ELSE NoNode
             IN  [objs |-> Rehydrate(Construct(objs, factoryClass, by), id, node, included),
                  threw |-> failAt = 1,
                  data |-> [t |-> "object", items |-> <<id>>]]

\* a rehydration that takes the class from the type of the payload's first node
PrimaryDataByType(objs, jsonData, factoryClass, by, failAt) ==
    LET included == IF jsonData.included.t = "array" THEN jsonData.included.items ELSE <<>>
        named == IF jsonData.data.items # <<>> /\ jsonData.data.items[1].type \in Keys
                 THEN classMap[jsonData.data.items[1].type]
                 ELSE NoClass
        chosen == IF named # NoClass THEN named ELSE factoryClass
    IN  IF jsonData.data.t = "array"
        THEN LET loop == RehydrateEach(objs, <<>>, jsonData.data.items, included,
                                       chosen, by, failAt, 1)
             IN  [objs |-> loop.objs, threw |-> loop.threw,
                  data |-> [t |-> "array", items |-> loop.responseData]]
        ELSE LET id == Len(objs) + 1
                 node == IF jsonData.data.t = "object" THEN jsonData.data.items[1] ELSE NoNode
             IN  [objs |-> Rehydrate(Construct(objs, chosen, by), id, node, included),
                  threw |-> failAt = 1,
                  data |-> [t |-> "object", items |-> <<id>>]]

\* if (Array.isArray(jsonData.data)) {...} else {...}: the heap, response.data, threw
PrimaryData(objs, jsonData, factoryClass, by, failAt) ==
    LET included == IF jsonData.included.t = "array" THEN jsonData.included.items ELSE <<>>
    IN  IF jsonData.data.t = "array"
        THEN LET loop == RehydrateEach(objs, <<>>, jsonData.data.items, included,
                                       factoryClass, by, failAt, 1)
             IN  [objs |-> loop.objs, threw |-> loop.threw,
                  data |-> [t |-> "array", items |-> loop.responseData]]
        ELSE LET id == Len(objs) + 1
                 node == IF jsonData.data.t = "object" THEN jsonData.data.items[1] ELSE NoNode
             IN  [objs |-> Rehydrate(Construct(objs, factoryClass, by), id, node, included),
                  threw |-> failAt = 1,
                  data |-> [t |-> "object", items |-> <<id>>]]

\* an interpretation that hands out the instances made before a rehydrate call raised
InterpretPartial(a, by, axiosResponse, failAt) ==
    LET r0 == WithStatus(a.response, axiosResponse.status)
        jsonData == axiosResponse.data
    IN  IF ~r0.ok
        THEN [objs |-> objects, caught |-> FALSE,
              response |-> [r0 EXCEPT !.error = axiosResponse.statusText]]
        ELSE IF axiosResponse.status = 204
        THEN [objs |-> objects, caught |-> FALSE, response |-> r0]
        ELSE IF jsonData.t = "null"
        THEN [objs |-> objects, caught |-> TRUE, response |-> r0]
        ELSE LET r1 == WithLinks(r0, jsonData.links, a.classKey)
                 pd == PrimaryData(objects, jsonData, a.factoryClass, by, failAt)
             IN  [objs |-> pd.objs, caught |-> pd.threw,
                  response |-> [r1 EXCEPT !.data = pd.data]]

\* an interpretation that takes the error text from the body's message
InterpretMessage(a, by, axiosResponse, failAt) ==
    LET r0 == WithStatus(a.response, axiosResponse.status)
        jsonData == axiosResponse.data
    IN  IF ~r0.ok
        THEN [objs |-> objects, caught |-> FALSE,
              response |-> [r0 EXCEPT !.error = IF jsonData.message.t = "string"
                                                THEN jsonData.message.text
                                                ELSE axiosResponse.statusText]]
        ELSE IF axiosResponse.status = 204
        THEN [objs |-> objects, caught |-> FALSE, response |-> r0]
        ELSE IF jsonData.t = "null"
        THEN [objs |-> objects, caught |-> TRUE, response |-> r0]
        ELSE LET r1 == WithLinks(r0, jsonData.links, a.classKey)
                 pd == PrimaryData(objects, jsonData, a.factoryClass, by, failAt)
             IN  [objs |-> pd.objs, caught |-> pd.threw,
                  response |-> IF pd.threw THEN r1 ELSE [r1 EXCEPT !.data = pd.data]]

\* an interpretation without the 204 test
InterpretNoContentParsed(a, by, axiosResponse, failAt) ==
    LET r0 == WithStatus(a.response, axiosResponse.status)
        jsonData == axiosResponse.data
    IN  IF ~r0.ok
        THEN [objs |-> objects, caught |-> FALSE,
              response |-> [r0 EXCEPT !.error = axiosResponse.statusText]]
        ELSE IF jsonData.t = "null"
        THEN [objs |-> objects, caught |-> TRUE, response |-> r0]
        ELSE LET r1 == WithLinks(r0, jsonData.links, a.classKey)
                 pd == PrimaryData(objects, jsonData, a.factoryClass, by, failAt)
             IN  [objs |-> pd.objs, caught |-> pd.threw,
                  response |-> IF pd.threw THEN r1 ELSE [r1 EXCEPT !.data = pd.data]]

\* the body of the try block after `await axios(axiosConfig)` resolved:
\* the heap and the envelope the dispatch returns
Interpret(a, by, axiosResponse, failAt) ==
    LET r0 == WithStatus(a.response, axiosResponse.status)
        jsonData == axiosResponse.data
    IN  IF ~r0.ok
        THEN [objs |-> objects, caught |-> FALSE,
              response |-> [r0 EXCEPT !.error = axiosResponse.statusText]]
        ELSE IF axiosResponse.status = 204
        THEN [objs |-> objects, caught |-> FALSE, response |-> r0]
        ELSE IF jsonData.t = "null"
        THEN [objs |-> objects, caught |-> TRUE, response |-> r0]
        ELSE LET r1 == WithLinks(r0, jsonData.links, a.classKey)
                 pd == PrimaryData(objects, jsonData, a.factoryClass, by, failAt)
             IN  [objs |-> pd.objs, caught |-> pd.threw,
                  response |-> IF pd.threw THEN r1 ELSE [r1 EXCEPT !.data = pd.data]]

\* a return through one envelope object that all dispatches share
axiosResolvedShared(d, axiosResponse, failAt) ==
    /\ disp[d].pc = "axios"
    /\ LET out == Interpret(disp[d], d, axiosResponse, failAt)
       IN  /\ disp' = [e \in DOMAIN disp |->
                         IF e = d
                         THEN [disp[e] EXCEPT !.pc = "returned",
                                              !.reply = axiosResponse,
                                              !.received = TRUE,
                                              !.caught = out.caught,
                                              !.response = out.response]
                         ELSE [disp[e] EXCEPT !.response = out.response]]
           /\ objects' = out.objs
    /\ UNCHANGED <<classMap, window, firstCtor, ignored>>

\* the transport's promise resolves with a response
axiosResolved(d, axiosResponse, failAt) ==
    /\ disp[d].pc = "axios"
    /\ LET out == Interpret(disp[d], d, axiosResponse, failAt)
       IN  /\ disp' = [disp EXCEPT ![d] = [@ EXCEPT !.pc = "returned",
                                                    !.reply = axiosResponse,
                                                    !.received = TRUE,
                                                    !.caught = out.caught,
                                                    !.response = out.response]]
           /\ objects' = out.objs
    /\ UNCHANGED <<classMap, window, firstCtor, ignored>>

\* a catch block that sends the request once more before it gives up
axiosRejectedRetry(d) ==
    /\ disp[d].pc = "axios"
    /\ disp' = [disp EXCEPT ![d] =
                   IF Len(@.requests) < 2
                   THEN Send(@)
                   ELSE [@ EXCEPT !.pc = "returned", !.caught = TRUE]]
    /\ UNCHANGED <<classMap, window, objects, firstCtor, ignored>>

\* a catch block that reports the failure in the envelope
axiosRejectedSurfaced(d) ==
    /\ disp[d].pc = "axios"
    /\ disp' = [disp EXCEPT ![d] = [@ EXCEPT !.pc = "returned", !.caught = TRUE,
                                             !.response.ok = FALSE,
                                             !.response.error = "Network Error"]]
    /\ UNCHANGED <<classMap, window, objects, firstCtor, ignored>>

\* the transport's promise rejects: catch (error) { console.error(error) }; return response
axiosRejected(d) ==
    /\ disp[d].pc = "axios"
    /\ disp' = [disp EXCEPT ![d] = [@ EXCEPT !.pc = "returned", !.caught = TRUE]]
    /\ UNCHANGED <<classMap, window, objects, firstCtor, ignored>>

----------------------------------------------------------------------------
(* The verbs *)

Caller == [via |-> "call", from |-> 0]

get(classKey, params, by, built) ==
    _request("GET", classKey, params, NoBody, NoBody, by.via, by.from, built)

\* a post that passes the caller's body on as it is
postAsGiven(classKey, params, body, built) ==
    _request("POST", classKey, params, body, body, "call", 0, built)

\* if (!body) body = {}; return this._request("POST", classKey, params, body)
post(classKey, params, body, built) ==
    _request("POST", classKey, params,
             IF body.t = "undefined" THEN Body(<<>>) ELSE body, body, "call", 0, built)

put(classKey, params, body, built) ==
    _request("PUT", classKey, params, body, body, "call", 0, built)

patch(classKey, params, body, built) ==
    _request("PATCH", classKey, params, body, body, "call", 0, built)

delete(classKey, params, built) ==
    _request("DELETE", classKey, params, NoBody, NoBody, "call", 0, built)

\* a nextPage that repeats the verb of the dispatch it came from
nextPageSameVerb(d, built) ==
    /\ disp[d].pc = "returned"
    /\ disp[d].response.nextPage.set
    /\ _request(disp[d].method, disp[d].response.nextPage.classKey,
                Params(disp[d].response.nextPage.link), NoBody, NoBody, "nextPage", d,
                built)

\* response.nextPage = async () => ApiDataFactory.get(classKey, { link: jsonData.links.next })
nextPage(d, built) ==
    /\ disp[d].pc = "returned"
    /\ disp[d].response.nextPage.set
    /\ get(disp[d].response.nextPage.classKey, Params(disp[d].response.nextPage.link),
           [via |-> "nextPage", from |-> d], built)

\* response.prevPage = async () => ApiDataFactory.get(classKey, { link: jsonData.links.prev })
prevPage(d, built) ==
    /\ disp[d].pc = "returned"
    /\ disp[d].response.prevPage.set
    /\ get(disp[d].response.prevPage.classKey, Params(disp[d].response.prevPage.link),
           [via |-> "prevPage", from |-> d], built)

----------------------------------------------------------------------------
(* The callers, the Resource Types and the remote side *)

RelativeLink == <<"/", "w", "/", "1">>
AbsoluteLink == NEXT_PUBLIC_API_URL \o RelativeLink
ForeignLink == <<"h", "t", "t", "p", "s", ":", "/", "/", "b", "/", "w">>
SelfLink == <<"/", "w">>
NextLink == <<"/", "w", "?", "p", "=", "2">>
PrevLink == NEXT_PUBLIC_API_URL \o <<"/", "w", "?", "p", "=", "1">>

\* what a Resource Type's generateApiUrl returns
BuiltUrls == {<<"/", "g">>}

AllParams ==
    {NoParams, Params(Undefined), Params(Str(<<>>)), Params(Str(RelativeLink)),
     Params(Str(AbsoluteLink)), Params(Str(ForeignLink)), Params(Str(NextLink))}

AllBodies == {NoBody, Body(<<>>), Body(<<"a">>)}

AllCookies ==
    [first : {NoText, Text(""), Text("t1")}, second : {NoText, Text("t2")}]

\* the links object of a payload
AllLinks ==
    {NoLinks,
     Links(Absent, Absent, Absent),
     Links(Str(SelfLink), Str(NextLink), Absent),
     Links(Str(SelfLink), Undefined, Str(PrevLink)),
     Links(Absent, Str(NextLink), Str(PrevLink))}

\* the primary data of a payload: absent, one node, or an array of 0..MaxData nodes
AllData == {NoArray, One(Node(1))} \cup {Array(Nodes(n)) : n \in 0..MaxData}

AllIncluded == {NoArray, Array(<<Node(MaxData + 1)>>)}

\* JSON:API payloads: every primary data with every included, and every links
JsonApiPayloads ==
    {Payload("absent", NoText, data, included, NoLinks) :
        data \in AllData, included \in AllIncluded}
    \cup {Payload("absent", NoText, Array(Nodes(MaxData)), NoArray, links) :
        links \in AllLinks}

ErrorPayload == Payload("false", Text("not found"), NoArray, NoArray, NoLinks)

\* a whole page: MaxData nodes, an included pool and both pagination links
Page ==
    Payload("absent", NoText, Array(Nodes(MaxData)), Array(<<Node(MaxData + 1)>>),
            Links(Absent, Str(NextLink), Str(PrevLink)))

SuccessStatus == {<<200, "OK">>, <<299, "">>}
ErrorStatus == {<<199, "">>, <<300, "Multiple Choices">>, <<404, "Not Found">>,
                <<500, "Internal Server Error">>}

AllResponses ==
    {Response(st[1], st[2], data) :
        st \in SuccessStatus, data \in JsonApiPayloads \cup {StringPayload, NullPayload}}
    \cup {Response(st[1], st[2], data) :
        st \in ErrorStatus, data \in {ErrorPayload, Page}}
    \cup {Response(204, "No Content", data) : data \in {StringPayload, Page}}

----------------------------------------------------------------------------
(* Specifications *)

Init ==
    /\ classMap = [k \in Keys |-> NoClass]
    /\ window \in {"undefined", "object"}
    /\ disp = <<>>
    /\ objects = <<>>
    /\ firstCtor = [k \in Keys |-> NoClass]
    /\ ignored = {}

\* the verb calls the callers have made
Calls == Cardinality({d \in DOMAIN disp : disp[d].via = "call"})

\* the next-state relation in the world `W`: the registrations of the Resource
\* Type modules, the params, bodies and cookies that callers and requests bring,
\* and the responses of the remote side
NextOver(W) ==
    \/ \E class \in W.classes : registerObjectClass(class[1], class[2])
    \/ \E classKey \in Keys, params \in W.params, built \in BuiltUrls :
          Calls < W.calls /\ Len(disp) < MaxDispatches
          /\ get(classKey, params, Caller, built)
    \/ \E classKey \in Keys, params \in W.params, body \in W.bodies, built \in BuiltUrls :
          Calls < W.calls /\ Len(disp) < MaxDispatches
          /\ post(classKey, params, body, built)
    \/ \E classKey \in Keys, params \in W.params, body \in W.bodies, built \in BuiltUrls :
          Calls < W.calls /\ Len(disp) < MaxDispatches
          /\ put(classKey, params, body, built)
    \/ \E classKey \in Keys, params \in W.params, body \in W.bodies, built \in BuiltUrls :
          Calls < W.calls /\ Len(disp) < MaxDispatches
          /\ patch(classKey, params, body, built)
    \/ \E classKey \in Keys, params \in W.params, built \in BuiltUrls :
          Calls < W.calls /\ Len(disp) < MaxDispatches
          /\ delete(classKey, params, built)
    \/ \E d \in DOMAIN disp, built \in BuiltUrls :
          Len(disp) < MaxDispatches /\ nextPage(d, built)
    \/ \E d \in DOMAIN disp, built \in BuiltUrls :
          Len(disp) < MaxDispatches /\ prevPage(d, built)
    \/ \E d \in DOMAIN disp, cookies \in W.cookies : importResolved(d, cookies)
    \/ \E d \in DOMAIN disp, axiosResponse \in W.responses, failAt \in 0..MaxData :
          axiosResolved(d, axiosResponse, failAt)
    \/ \E d \in DOMAIN disp : axiosRejected(d)

\* every Resource Type module registers its own class under its own key
OwnClasses == {<<"k1", "A">>, <<"k2", "B">>}

\* callers of every verb on every key, one after another or concurrently; a remote
\* side that answers with a page or an error
World ==
    [classes |-> OwnClasses,
     calls |-> MaxDispatches,
     params |-> {NoParams, Params(Str(RelativeLink))},
     bodies |-> {NoBody},
     cookies |-> {NoCookies},
     responses |-> {Response(200, "OK", Page), Response(404, "Not Found", ErrorPayload)}]

Next == NextOver(World)

Spec == Init /\ [][Next]_vars

\* modules that register any class under any key, also twice
RegistryWorld ==
    [classes |-> Keys \X Ctors,
     calls |-> MaxCalls,
     params |-> {Params(Str(RelativeLink))},
     bodies |-> {NoBody},
     cookies |-> {NoCookies},
     responses |-> {Response(200, "OK", Page)}]

SpecRegistry == Init /\ [][NextOver(RegistryWorld)]_vars

\* every kind of link, body and cookie store; a remote side that answers with a page
UrlWorld ==
    [classes |-> {<<"k1", "A">>},
     calls |-> MaxCalls,
     params |-> AllParams,
     bodies |-> AllBodies,
     cookies |-> AllCookies,
     responses |-> {Response(200, "OK", Page)}]

SpecUrl == Init /\ [][NextOver(UrlWorld)]_vars

\* every kind of response
ReplyWorld ==
    [classes |-> {<<"k1", "A">>},
     calls |-> MaxCalls,
     params |-> {NoParams, Params(Str(RelativeLink))},
     bodies |-> {NoBody},
     cookies |-> {NoCookies},
     responses |-> AllResponses]

SpecReply == Init /\ [][NextOver(ReplyWorld)]_vars

\* one caller and a remote side that answers with a page, if it answers at all
LiveWorld ==
    [classes |-> {<<"k1", "A">>},
     calls |-> MaxCalls,
     params |-> {NoParams, Params(Str(RelativeLink))},
     bodies |-> {NoBody},
     cookies |-> {NoCookies},
     responses |-> {Response(200, "OK", Page)}]

\* what the runtime guarantees to a dispatch that waits: `await import("next/headers")`
\* resolves. Nothing makes the promise of `await axios(axiosConfig)` settle: the
\* request carries no timeout, so that is left to the remote side.
Scheduling ==
    \A d \in 1..MaxDispatches :
        WF_vars(d \in DOMAIN disp
                /\ \E cookies \in LiveWorld.cookies : importResolved(d, cookies))

SpecLive == Init /\ [][NextOver(LiveWorld)]_vars /\ Scheduling

----------------------------------------------------------------------------
(* Properties *)

\* the instances dispatch d has made
MadeBy(d) == {id \in DOMAIN objects : objects[id].by = d}

\* C1: the registry is first-write-wins: every key maps to the constructor of the
\* first registerObjectClass call for that key (to nothing when there was none);
\* later calls for the key, and calls for other keys, leave its entry alone.
C1_FirstWriteWins ==
    \A key \in Keys : classMap[key] = firstCtor[key]

\* a later registration with another constructor was made and changed nothing
C1_Witness ==
    \E call \in ignored :
        /\ classMap[call[1]] # NoClass
        /\ classMap[call[1]] # call[2]
        /\ \E other \in Keys : other # call[1] /\ classMap[other] # NoClass

\* C2: a dispatch, of any verb, whose class key is not in the registry throws and
\* does nothing else: no request, no cookie lookup, no generateApiUrl call, no
\* instance, no envelope.
C2_UnregisteredThrowsBeforeIO ==
    \A d \in DOMAIN disp :
        (disp[d].factoryClass = NoClass \/ classMap[disp[d].classKey] = NoClass)
        => /\ disp[d].pc = "thrown"
           /\ disp[d].requests = <<>>
           /\ disp[d].cookieGets = <<>>
           /\ disp[d].generated = 0
           /\ MadeBy(d) = {}
           /\ ~disp[d].received

\* a dispatch on an unregistered key has thrown while another one sent its request
C2_Witness ==
    \E d, e \in DOMAIN disp :
        /\ disp[d].pc = "thrown"
        /\ disp[d].method = "DELETE"
        /\ classMap[disp[d].classKey] = NoClass
        /\ disp[e].requests # <<>>

\* C3: on the server the request goes to the link itself when the link starts with
\* "http", and to NEXT_PUBLIC_API_URL + link otherwise (/w/1 -> http://a/w/1);
\* never to the internal proxy.
C3_ServerUrl ==
    window = "undefined" =>
        \A d \in DOMAIN disp : \A i \in DOMAIN disp[d].requests :
            LET url == disp[d].requests[i].url
                link == disp[d].linkIn.s
            IN  /\ startsWith(link, <<"h", "t", "t", "p">>) => url = link
                /\ ~startsWith(link, <<"h", "t", "t", "p">>)
                      => url = NEXT_PUBLIC_API_URL \o link
                /\ link = <<"/", "w", "/", "1">>
                      => url = <<"h", "t", "t", "p", ":", "/", "/", "a", "/", "w", "/", "1">>
                /\ ~startsWith(url, NEXT_PUBLIC_INTERNAL_API_URL \o UriQuery)

\* on the server, a relative and an absolute link have each been requested
C3_Witness ==
    /\ window = "undefined"
    /\ \E d \in DOMAIN disp :
          disp[d].linkIn = Str(RelativeLink) /\ disp[d].requests # <<>>
    /\ \E d \in DOMAIN disp :
          disp[d].linkIn = Str(PrevLink) /\ disp[d].requests # <<>>

\* C4: in the browser every request goes to NEXT_PUBLIC_INTERNAL_API_URL + "?uri=" +
\* the encoded path: the link without its NEXT_PUBLIC_API_URL prefix when it begins
\* with that prefix (http://a/w/1 -> /i?uri=%2Fw%2F1), the link itself when it is
\* relative; never to the public API base URL.
C4_BrowserUrl ==
    window = "object" =>
        \A d \in DOMAIN disp : \A i \in DOMAIN disp[d].requests :
            LET url == disp[d].requests[i].url
                link == disp[d].linkIn.s
                proxy == NEXT_PUBLIC_INTERNAL_API_URL \o <<"?", "u", "r", "i", "=">>
                n == Len(NEXT_PUBLIC_API_URL)
            IN  /\ startsWith(url, proxy)
                /\ ~startsWith(url, NEXT_PUBLIC_API_URL)
                /\ \A j \in (Len(proxy) + 1)..Len(url) : url[j] \notin {"/", "?", "=", ":"}
                /\ startsWith(link, NEXT_PUBLIC_API_URL)
                      => url = proxy \o encodeURIComponent(SubSeq(link, n + 1, Len(link)))
                /\ ~startsWith(link, <<"h", "t", "t", "p">>)
                      => url = proxy \o encodeURIComponent(link)
                /\ link = NEXT_PUBLIC_API_URL \o <<"/", "w", "/", "1">>
                      => url = <<"/", "i", "?", "u", "r", "i", "=",
                                 "%", "2", "F", "w", "%", "2", "F", "1">>

\* in the browser, an absolute link under the public API base URL has been requested
C4_Witness ==
    /\ window = "object"
    /\ \E d \in DOMAIN disp :
          disp[d].linkIn = Str(AbsoluteLink) /\ disp[d].requests # <<>>

\* what a dispatch received, and whether it was a success with a body to read
Success(d) ==
    /\ disp[d].received
    /\ disp[d].reply.status >= 200
    /\ disp[d].reply.status < 300
    /\ disp[d].reply.status # 204

\* the dispatch made no instance but the one whose generateApiUrl it called, and
\* rehydrated none
NothingRehydrated(d) ==
    /\ Cardinality(MadeBy(d)) = disp[d].generated
    /\ \A id \in MadeBy(d) : objects[id].rehydrated = <<>> /\ objects[id].urlCalls = 1

NoPagination(e) ==
    /\ e.self = Absent /\ e.next = Absent /\ e.prev = Absent
    /\ e.nextPage = NoClosure /\ e.prevPage = NoClosure

\* C5: for every response received, envelope.response is the status and envelope.ok
\* is 200 <= status < 300; outside 200..299 the dispatch returns at once with the
\* status text as error, data [], no self/next/prev/nextPage/prevPage, and without
\* making or rehydrating an instance for the response.
C5_StatusAndErrorEnvelope ==
    \A d \in DOMAIN disp :
        disp[d].received =>
            LET status == disp[d].reply.status
                e == disp[d].response
            IN  /\ e.response = status
                /\ e.ok = (200 <= status /\ status < 300)
                /\ (status < 200 \/ status > 299)
                      => /\ disp[d].pc = "returned"
                         /\ e.ok = FALSE
                         /\ e.error = disp[d].reply.statusText
                         /\ e.data = [t |-> "array", items |-> <<>>]
                         /\ NoPagination(e)
                         /\ NothingRehydrated(d)

\* an error status arrived with a whole page as body, for a dispatch that had built
\* its URL itself
C5_Witness ==
    \E d \in DOMAIN disp :
        /\ disp[d].received
        /\ disp[d].reply.status = 300
        /\ disp[d].reply.data = Page
        /\ disp[d].generated = 1

\* the error responses whose body is { ok: false, message: m }
ErrorWithMessage(d) ==
    /\ disp[d].received
    /\ (disp[d].reply.status < 200 \/ disp[d].reply.status > 299)
    /\ disp[d].reply.data.t = "object"
    /\ disp[d].reply.data.ok = "false"
    /\ disp[d].reply.data.message.t = "string"

\* C6 as claimed: a non-2xx response with body { ok: false, message: m } yields
\* ok = false, error = m and empty data.
C6_ErrorIsBodyMessage ==
    \A d \in DOMAIN disp :
        ErrorWithMessage(d) =>
            /\ disp[d].response.ok = FALSE
            /\ disp[d].response.error = disp[d].reply.data.message.text
            /\ disp[d].response.data = EmptyData

\* C6 as amended: a non-2xx response with body { ok: false, message: m } yields
\* ok = false, error = the status text of the response (the body's message is not
\* read) and empty data.
C6_ErrorIsStatusText ==
    \A d \in DOMAIN disp :
        ErrorWithMessage(d) =>
            /\ disp[d].response.ok = FALSE
            /\ disp[d].response.error = disp[d].reply.statusText
            /\ disp[d].reply.statusText # disp[d].reply.data.message.text
                  => disp[d].response.error # disp[d].reply.data.message.text
            /\ disp[d].response.data = EmptyData

\* a 404 arrived with body { ok: false, message: "not found" }
C6_Witness ==
    \E d \in DOMAIN disp :
        /\ ErrorWithMessage(d)
        /\ disp[d].reply.status = 404
        /\ disp[d].reply.data.message.text = "not found"
        /\ disp[d].response.error = "Not Found"

\* C7: a 204 response yields { ok: true, response: 204, data: [], error: "" } and
\* nothing else, whatever its body: no pagination field, no instance made or
\* rehydrated for it.
C7_NoContent ==
    \A d \in DOMAIN disp :
        (disp[d].received /\ disp[d].reply.status = 204) =>
            /\ disp[d].pc = "returned"
            /\ disp[d].response =
                  [ok |-> TRUE, response |-> 204, data |-> [t |-> "array", items |-> <<>>],
                   error |-> "", self |-> Absent, next |-> Absent, prev |-> Absent,
                   nextPage |-> NoClosure, prevPage |-> NoClosure]
            /\ NothingRehydrated(d)

\* a 204 arrived with a whole page as body
C7_Witness ==
    \E d \in DOMAIN disp :
        /\ disp[d].received
        /\ disp[d].reply.status = 204
        /\ disp[d].reply.data = Page

\* the success responses whose primary data is an array
ArrayReceived(d) ==
    /\ Success(d)
    /\ disp[d].reply.data.t = "object"
    /\ disp[d].reply.data.data.t = "array"

\* envelope.data of d is one fresh instance per element of the primary data, in
\* order, each rehydrated once with its element and the included pool
RehydratedInOrder(d) ==
    LET items == disp[d].reply.data.data.items
        pool == IF disp[d].reply.data.included.t = "array"
                THEN disp[d].reply.data.included.items ELSE <<>>
        out == disp[d].response.data
    IN  /\ out.t = "array"
        /\ Len(out.items) = Len(items)
        /\ \A i \in DOMAIN out.items :
              /\ out.items[i] \in MadeBy(d)
              /\ objects[out.items[i]].urlCalls = 0
              /\ objects[out.items[i]].rehydrated =
                    <<[jsonApi |-> items[i], included |-> pool]>>
        /\ \A i, j \in DOMAIN out.items : i # j => out.items[i] # out.items[j]
        /\ Cardinality(MadeBy(d)) = Len(items) + disp[d].generated

Declared(d, link) ==
    /\ Success(d)
    /\ disp[d].reply.data.t = "object"
    /\ disp[d].reply.data.links.t = "object"
    /\ link.t = "string"
    /\ link.s # <<>>

\* C9: an envelope carries nextPage and next exactly when its response was 2xx
\* non-204 and the payload declared links.next, and prevPage and prev exactly when
\* the payload declared links.prev; error, 204 and failed dispatches carry none.
C9_PaginationIffDeclared ==
    \A d \in DOMAIN disp :
        LET e == disp[d].response
            links == disp[d].reply.data.links
        IN  /\ e.nextPage.set <=> Declared(d, links.next)
            /\ e.next # Absent <=> Declared(d, links.next)
            /\ e.prevPage.set <=> Declared(d, links.prev)
            /\ e.prev # Absent <=> Declared(d, links.prev)
            /\ e.nextPage.set => e.next = links.next /\ e.nextPage.link = links.next
            /\ e.prevPage.set => e.prev = links.prev /\ e.prevPage.link = links.prev

\* a returned envelope carries self, next and nextPage, and neither prev nor prevPage
C9_Witness ==
    \E d \in DOMAIN disp :
        /\ disp[d].pc = "returned"
        /\ disp[d].response.nextPage.set
        /\ ~disp[d].response.prevPage.set
        /\ disp[d].response.self # Absent

\* the link a pagination dispatch was started with, read from the payload of the
\* dispatch whose envelope carried the closure
LiteralLink(c) ==
    IF c.via = "nextPage"
    THEN disp[c.from].reply.data.links.next
    ELSE disp[c.from].reply.data.links.prev

\* the URL that the execution context makes of a link
ResolvedUrl(link) ==
    IF window = "undefined"
    THEN IF startsWith(link, <<"h", "t", "t", "p">>) THEN link
         ELSE NEXT_PUBLIC_API_URL \o link
    ELSE NEXT_PUBLIC_INTERNAL_API_URL \o <<"?", "u", "r", "i", "=">> \o
         encodeURIComponent(IF startsWith(link, <<"h", "t", "t", "p">>)
                            THEN SubSeq(link, Len(NEXT_PUBLIC_API_URL) + 1, Len(link))
                            ELSE link)

\* a step that starts a dispatch from a pagination closure starts exactly one, a
\* GET on the key of the envelope's dispatch with params { link: the literal link }
PaginationStarts ==
    (Len(disp') > Len(disp) /\ disp'[Len(disp')].via # "call") =>
        LET c == disp'[Len(disp')]
        IN  /\ Len(disp') = Len(disp) + 1
            /\ c.from \in DOMAIN disp
            /\ disp[c.from].pc = "returned"
            /\ c.method = "GET"
            /\ c.body = NoBody
            /\ c.classKey = disp[c.from].classKey
            /\ c.params = [present |-> TRUE, link |-> LiteralLink(c)]
            /\ c.linkIn = LiteralLink(c)
            /\ c.response.data = [t |-> "array", items |-> <<>>]
            /\ c.pc = IF window = "undefined" THEN "import" ELSE "axios"

\* the request of a pagination dispatch goes where the execution context sends
\* its literal link
PaginationRequests ==
    \A d \in DOMAIN disp :
        (disp[d].via # "call" /\ disp'[d].requests # disp[d].requests) =>
            /\ Len(disp'[d].requests) = 1
            /\ disp'[d].requests[1].method = "GET"
            /\ disp'[d].requests[1].url = ResolvedUrl(LiteralLink(disp[d]).s)

\* no step changes a dispatch that has returned, its envelope included
EnvelopesKept ==
    \A d \in DOMAIN disp :
        disp[d].pc = "returned" => (d \in DOMAIN disp' /\ disp'[d] = disp[d])

\* C10: calling nextPage() or prevPage() of an envelope starts exactly one dispatch
\* through the whole pipeline: a GET, on the registry key of the dispatch that made
\* the envelope whatever its verb was, with params.link the literal links.next or
\* links.prev, which the execution context resolves again; the new dispatch has an
\* envelope of its own and the envelope it was started from stays as it was.
C10_PaginationRedispatch ==
    [][PaginationStarts /\ PaginationRequests /\ EnvelopesKept]_vars

\* the nextPage of an envelope that a POST produced has returned an envelope
C10_Witness ==
    \E c \in DOMAIN disp :
        /\ disp[c].via = "nextPage"
        /\ disp[disp[c].from].method = "POST"
        /\ disp[c].pc = "returned"
        /\ disp[c].received
        /\ disp[c].requests # <<>>
        /\ disp[c].response # disp[disp[c].from].response

\* the request of the dispatch left and its transport rejected
Rejected(d) ==
    /\ disp[d].requests # <<>>
    /\ disp[d].pc # "axios"
    /\ ~disp[d].received

\* C11: when the transport fails (its promise rejects) the dispatch does not throw:
\* it returns the envelope it started with, exactly { ok: true, response: 0,
\* data: [], error: "" } without self/next/prev/nextPage/prevPage, and has made no
\* instance for a response.
C11_TransportFailureDefaultEnvelope ==
    \A d \in DOMAIN disp :
        Rejected(d) =>
            /\ disp[d].pc = "returned"
            /\ disp[d].caught
            /\ disp[d].response =
                  [ok |-> TRUE, response |-> 0, data |-> [t |-> "array", items |-> <<>>],
                   error |-> "", self |-> Absent, next |-> Absent, prev |-> Absent,
                   nextPage |-> NoClosure, prevPage |-> NoClosure]
            /\ NothingRehydrated(d)

\* a request was sent, the transport rejected and the dispatch has returned
C11_Witness ==
    \E d \in DOMAIN disp :
        /\ Len(disp[d].requests) = 1
        /\ disp[d].pc = "returned"
        /\ ~disp[d].received
        /\ disp[d].caught
        /\ disp[d].response.ok

\* the Authorization headers of a request
Authorization(request) == {h \in request.headers : h[1] = "Authorization"}

\* C12: a request carries Authorization: Bearer <token> exactly when the dispatch
\* runs on the server and found a session token (a non-empty value), the token being
\* the value of next-auth.session-token when that cookie is present and the value of
\* __Secure-next-auth.session-token otherwise; in the browser no cookie is read and
\* no request carries the header.
C12_BearerIffServerToken ==
    \A d \in DOMAIN disp : \A i \in DOMAIN disp[d].requests :
        LET store == disp[d].cookies
            token == IF store.first.t = "string" THEN store.first ELSE store.second
            found == token.t = "string" /\ token.text # ""
        IN  /\ window = "object"
                  => /\ Authorization(disp[d].requests[i]) = {}
                     /\ disp[d].cookieGets = <<>>
            /\ window = "undefined"
                  => /\ found => Authorization(disp[d].requests[i])
                                    = {<<"Authorization", "Bearer " \o token.text>>}
                     /\ ~found => Authorization(disp[d].requests[i]) = {}
                     /\ disp[d].cookieGets # <<>>
                     /\ disp[d].cookieGets[1] = "next-auth.session-token"

\* on the server one request carried the first cookie's value although the second
\* cookie was there too, and another carried the second cookie's value
C12_Witness ==
    /\ window = "undefined"
    /\ \E d \in DOMAIN disp :
          /\ disp[d].cookies = [first |-> Text("t1"), second |-> Text("t2")]
          /\ disp[d].requests # <<>>
          /\ <<"Authorization", "Bearer t1">> \in disp[d].requests[1].headers
    /\ \E d \in DOMAIN disp :
          /\ disp[d].cookies = [first |-> NoText, second |-> Text("t2")]
          /\ disp[d].requests # <<>>
          /\ <<"Authorization", "Bearer t2">> \in disp[d].requests[1].headers

\* C13: every dispatch eventually completes, by returning an envelope or by
\* throwing, even when the remote side never answers.
C13_EveryDispatchCompletes ==
    \A d \in 1..MaxDispatches :
        (d \in DOMAIN disp) ~> (d \in DOMAIN disp /\ disp[d].pc \in {"returned", "thrown"})

\* C14: every instance a dispatch makes, the one whose generateApiUrl it calls and
\* the ones it puts in envelope.data, is made with the constructor the registry held
\* for the dispatch's class key when the dispatch started; neither the type of a
\* payload node nor the constructor of another key selects it.
C14_RegisteredConstructorOnly ==
    /\ \A id \in DOMAIN objects :
          LET d == objects[id].by
          IN  /\ d \in DOMAIN disp
              /\ objects[id].ctor # NoClass
              /\ objects[id].ctor = disp[d].factoryClass
              /\ objects[id].ctor = firstCtor[disp[d].classKey]
    /\ \A d \in DOMAIN disp : \A i \in DOMAIN disp[d].response.data.items :
          LET id == disp[d].response.data.items[i]
          IN  id \in DOMAIN objects /\ objects[id].by = d

\* an instance of the class registered under k1 was rehydrated from a node whose
\* type is k2 while k2 has another class, and one instance built a URL
C14_Witness ==
    /\ classMap["k1"] # classMap["k2"]
    /\ classMap["k2"] # NoClass
    /\ \E d \in DOMAIN disp :
          /\ disp[d].classKey = "k1"
          /\ \E i \in DOMAIN disp[d].response.data.items :
                LET o == objects[disp[d].response.data.items[i]]
                IN  /\ o.ctor = classMap["k1"]
                    /\ o.rehydrated # <<>>
                    /\ o.rehydrated[1].jsonApi.type = "k2"
          /\ \E id \in MadeBy(d) : objects[id].urlCalls = 1

\* the primary data of the payload the dispatch received was an array
ArrayPayload(d) ==
    /\ disp[d].received
    /\ disp[d].reply.data.t = "object"
    /\ disp[d].reply.data.data.t = "array"

\* C15: over all outcomes of a dispatch, envelope.data is a sequence whenever the
\* primary data of the payload was an array; it is a single rehydrated instance only
\* after a 2xx non-204 response whose primary data was not an array; and it is the
\* empty sequence after a non-2xx status, a transport failure and a 204.
C15_DataShape ==
    \A d \in DOMAIN disp :
        LET data == disp[d].response.data
        IN  /\ data.t \in {"array", "object"}
            /\ ArrayPayload(d) => data.t = "array"
            /\ data.t = "object"
                  => /\ Success(d)
                     /\ ~ArrayPayload(d)
                     /\ Len(data.items) = 1
                     /\ data.items[1] \in MadeBy(d)
                     /\ Len(objects[data.items[1]].rehydrated) = 1
            /\ (disp[d].pc = "returned" /\ ~Success(d))
                  => data = [t |-> "array", items |-> <<>>]

\* a dispatch returned a single rehydrated instance for a single-object payload
C15_Witness ==
    \E d \in DOMAIN disp :
        /\ Success(d)
        /\ disp[d].reply.data.data = One(Node(1))
        /\ disp[d].response.data.t = "object"
        /\ objects[disp[d].response.data.items[1]].rehydrated[1].jsonApi = Node(1)

\* C16: a dispatch sends at most one request: none before its transport call or
\* when it throws for an unregistered key, exactly one from its transport call on,
\* and no second one after an error status or a transport failure; the requests
\* sent are as many as the dispatches (verb and pagination calls) that got there.
C16_OneRequestPerDispatch ==
    \A d \in DOMAIN disp :
        /\ Len(disp[d].requests) <= 1
        /\ disp[d].pc \in {"axios", "returned"} => Len(disp[d].requests) = 1
        /\ disp[d].pc \in {"thrown", "import"} => Len(disp[d].requests) = 0
        /\ disp[d].pc \in {"thrown", "import", "axios", "returned"}

\* one dispatch has returned after an error status and another after a transport
\* failure, each with the one request it sent
C16_Witness ==
    \E d, e \in DOMAIN disp :
        /\ disp[d].pc = "returned"
        /\ disp[d].received
        /\ disp[d].reply.status = 404
        /\ Len(disp[d].requests) = 1
        /\ disp[e].pc = "returned"
        /\ ~disp[e].received
        /\ disp[e].caught
        /\ Len(disp[e].requests) = 1

\* the envelope of dispatch d with each instance of its data shown by value
Shown(d) ==
    LET data == disp[d].response.data
    IN  [disp[d].response EXCEPT !.data =
            [t |-> data.t,
             items |-> [i \in DOMAIN data.items |->
                          [ctor |-> objects[data.items[i]].ctor,
                           rehydrated |-> objects[data.items[i]].rehydrated]]]]

\* the envelope dispatch d returns when it runs alone: a function of its class key,
\* the class registered for it, the reply of its transport and whether a rehydrate
\* call raised
Alone(d) ==
    LET reply == disp[d].reply
        jsonData == reply.data
        links == jsonData.links
        ok == reply.status >= 200 /\ reply.status < 300
        read == Success(d) /\ jsonData.t # "null"
        pool == IF jsonData.included.t = "array" THEN jsonData.included.items ELSE <<>>
        instance(node) ==
            [ctor |-> firstCtor[disp[d].classKey],
             rehydrated |-> <<[jsonApi |-> node, included |-> pool]>>]
    IN  [ok |-> IF disp[d].received THEN ok ELSE TRUE,
         response |-> IF disp[d].received THEN reply.status ELSE 0,
         error |-> IF disp[d].received /\ ~ok THEN reply.statusText ELSE "",
         self |-> IF read /\ links.t = "object"
                  THEN (IF links.self.t = "absent" THEN Undefined ELSE links.self)
                  ELSE Absent,
         next |-> IF Declared(d, links.next) THEN links.next ELSE Absent,
         prev |-> IF Declared(d, links.prev) THEN links.prev ELSE Absent,
         nextPage |-> IF Declared(d, links.next)
                      THEN [set |-> TRUE, classKey |-> disp[d].classKey, link |-> links.next]
                      ELSE [set |-> FALSE, classKey |-> "", link |-> Absent],
         prevPage |-> IF Declared(d, links.prev)
                      THEN [set |-> TRUE, classKey |-> disp[d].classKey, link |-> links.prev]
                      ELSE [set |-> FALSE, classKey |-> "", link |-> Absent],
         data |-> IF ~read \/ disp[d].caught
                  THEN [t |-> "array", items |-> <<>>]
                  ELSE IF jsonData.data.t = "array"
                  THEN [t |-> "array",
                        items |-> [i \in DOMAIN jsonData.data.items |->
                                     instance(jsonData.data.items[i])]]
                  ELSE [t |-> "object",
                        items |-> <<instance(IF jsonData.data.t = "object"
                                             THEN jsonData.data.items[1]
                                             ELSE NoNode)>>]]

\* every returned envelope is the one its dispatch returns alone
EnvelopeAsAlone ==
    \A d \in DOMAIN disp : disp[d].pc = "returned" => Shown(d) = Alone(d)

\* a step moves at most one dispatch and touches nothing of another: not its
\* activation, not its envelope, not an instance that exists; a step of a dispatch
\* leaves the registry and the execution context alone; new instances belong to
\* the dispatch that moved
OwnStateOnly ==
    /\ \A d \in DOMAIN disp : d \in DOMAIN disp'
    /\ \A d, e \in DOMAIN disp : (d # e /\ disp'[d] # disp[d]) => disp'[e] = disp[e]
    /\ Len(disp') > Len(disp)
          => /\ Len(disp') = Len(disp) + 1
             /\ \A d \in DOMAIN disp : disp'[d] = disp[d]
    /\ disp' # disp => (classMap' = classMap /\ window' = window)
    /\ \A id \in DOMAIN objects : id \in DOMAIN objects' /\ objects'[id] = objects[id]
    /\ \A id \in DOMAIN objects' \ DOMAIN objects :
          LET d == objects'[id].by
          IN  /\ d \in DOMAIN disp'
              /\ d \in DOMAIN disp => disp'[d] # disp[d]

\* C17: dispatches in flight at once do not interact: under every interleaving of
\* their steps each returns the envelope it returns alone with the same key, params,
\* context and transport reply, and no step of a dispatch writes the registry or
\* anything another dispatch reads.
C17_NoInteraction ==
    []EnvelopeAsAlone /\ [][OwnStateOnly]_vars

\* two verb calls ran interleaved (the second built its URL between two instances
\* of the first) and returned different envelopes
C17_Witness ==
    \E d, e \in DOMAIN disp :
        /\ d # e
        /\ disp[d].via = "call" /\ disp[e].via = "call"
        /\ disp[d].pc = "returned" /\ disp[e].pc = "returned"
        /\ Shown(d) # Shown(e)
        /\ disp[d].response.data.items # <<>>
        /\ \E i, j, k \in DOMAIN objects :
              /\ i < j /\ j < k
              /\ objects[i].by = d /\ objects[j].by = e /\ objects[k].by = d

\* C18: a request of get or delete carries no body; a request of post carries the
\* JSON text {} when the caller gave no body; a request of put or patch carries no
\* body when the caller gave none; and a body the caller gave to post, put or patch
\* is sent as its JSON text ({} -> "{}", { a: 1 } -> "{\"a\":1}").
C18_RequestBody ==
    \A d \in DOMAIN disp : \A i \in DOMAIN disp[d].requests :
        LET sent == disp[d].requests[i].data
            given == disp[d].given
            method == disp[d].requests[i].method
        IN  /\ method \in {"GET", "DELETE"} => sent.t = "undefined"
            /\ (method = "POST" /\ given.t = "undefined")
                  => sent = [t |-> "string", text |-> "{}"]
            /\ (method \in {"PUT", "PATCH"} /\ given.t = "undefined")
                  => sent.t = "undefined"
            /\ (method \in {"POST", "PUT", "PATCH"} /\ given.t = "object")
                  => /\ sent.t = "string"
                     /\ given.keys = <<>> => sent.text = "{}"
                     /\ given.keys = <<"a">> => sent.text = "{\"a\":1}"

\* a post whose caller gave no body has sent {}
C18_Witness ==
    \E d \in DOMAIN disp :
        /\ disp[d].method = "POST"
        /\ disp[d].given.t = "undefined"
        /\ disp[d].requests # <<>>
        /\ disp[d].requests[1].data.text = "{}"

\* the caller gave a link: params.link is a non-empty string
LinkGiven(d) ==
    /\ disp[d].params.link.t = "string"
    /\ disp[d].params.link.s # <<>>

\* C19: for a dispatch on a registered key, the link that enters URL resolution is
\* params.link when the caller gave one (a non-empty string), and then no
\* generateApiUrl call is made; otherwise it is what one generateApiUrl call
\* returned, made on one new instance of the registered constructor.
C19_LinkOrBuiltUrl ==
    \A d \in DOMAIN disp :
        disp[d].pc # "thrown" =>
            LET builders == {id \in MadeBy(d) : objects[id].urlCalls > 0}
            IN  /\ LinkGiven(d)
                      => /\ disp[d].linkIn = disp[d].params.link
                         /\ disp[d].generated = 0
                         /\ builders = {}
                /\ ~LinkGiven(d)
                      => /\ disp[d].linkIn.t = "string"
                         /\ disp[d].linkIn.s \in BuiltUrls
                         /\ disp[d].generated = 1
                         /\ Cardinality(builders) = 1
                         /\ \A id \in builders :
                               /\ objects[id].urlCalls = 1
                               /\ objects[id].ctor = classMap[disp[d].classKey]
                               /\ objects[id].rehydrated = <<>>
                               /\ \A other \in MadeBy(d) : id <= other

\* a call without params has requested the URL its Resource Type built, and the
\* nextPage of its envelope has requested the link it was given, building none
C19_Witness ==
    \E d, e \in DOMAIN disp :
        /\ ~disp[d].params.present
        /\ disp[d].generated = 1
        /\ disp[d].requests # <<>>
        /\ disp[e].via = "nextPage" /\ disp[e].from = d
        /\ disp[e].linkIn = Str(NextLink)
        /\ disp[e].generated = 0
        /\ disp[e].requests # <<>>

\* reading the body of a 2xx non-204 response, or a rehydrate call, raised
RaisedAfterSuccess(d) == Success(d) /\ disp[d].caught

\* C20: when a 2xx non-204 response was received and reading its body or a
\* rehydrate call raised, the dispatch does not throw and exposes no partial
\* result: it returns ok = true, response = the status, error = "" and data = [],
\* never the instances made before the raise, and keeps the self/next/prev and the
\* closures it had taken from links.
C20_AllOrNothing ==
    \A d \in DOMAIN disp :
        RaisedAfterSuccess(d) =>
            LET e == disp[d].response
                jsonData == disp[d].reply.data
                links == jsonData.links
                taken == jsonData.t # "null" /\ links.t = "object"
            IN  /\ disp[d].pc = "returned"
                /\ e.ok = TRUE
                /\ e.response = disp[d].reply.status
                /\ e.error = ""
                /\ e.data = [t |-> "array", items |-> <<>>]
                /\ (taken /\ links.self.t = "string") => e.self = links.self
                /\ (taken /\ links.next.t = "string" /\ links.next.s # <<>>)
                      => /\ e.next = links.next
                         /\ e.nextPage = [set |-> TRUE, classKey |-> disp[d].classKey,
                                          link |-> links.next]
                /\ (taken /\ links.prev.t = "string" /\ links.prev.s # <<>>)
                      => /\ e.prev = links.prev
                         /\ e.prevPage = [set |-> TRUE, classKey |-> disp[d].classKey,
                                          link |-> links.prev]
                /\ ~taken => NoPagination(e)

\* the rehydrate call of the second of MaxData elements raised: the first instance
\* exists, data is [] and the envelope carries self, next and nextPage
C20_Witness ==
    \E d \in DOMAIN disp :
        /\ RaisedAfterSuccess(d)
        /\ disp[d].reply.data.data = Array(Nodes(MaxData))
        /\ Cardinality(MadeBy(d)) = disp[d].generated + 2
        /\ \E id \in MadeBy(d) : objects[id].rehydrated # <<>>
        /\ disp[d].response.data.items = <<>>
        /\ disp[d].response.self = Str(SelfLink)
        /\ disp[d].response.next = Str(NextLink)
        /\ disp[d].response.nextPage.set

====
